---- MODULE Spec2Model ----
(***************************************************************************)
(* Model of vite-plugin-swift-wasm (src/src/index.ts): the reload debounce *)
(* gate, the throttled rebuild coordinator, the SDK identifier resolver    *)
(* and the plugin hooks (config, load, hotUpdate) that drive them.         *)
(*                                                                         *)
(* JavaScript strings are modelled as sequences of tokens, so that         *)
(* concatenation is \o and a suffix or prefix test is a test on tokens.    *)
(* The empty sequence stands for both undefined and "": the code only      *)
(* tests such values for truthiness.                                       *)
(*                                                                         *)
(* The orchestration runs on one event loop.  A hook call up to its first  *)
(* suspending await is one action; the continuation that runs when an      *)
(* external command exits (with every promise reaction it triggers in the  *)
(* same microtask drain) is one action.                                    *)
(***************************************************************************)
EXTENDS Integers, Sequences, FiniteSets, TLC

----------------------------------------------------------------------------
(* Bounds of the model *)

\* a session with several imports: load() invocations, builds started (initial
\* builds and rebuilds), requestRebuild() invocations, the clock's largest value
MaxLoads == 2
MaxBuilds == 3
MaxCalls == 1
MaxTime == 20
\* a development session with one import
DevMaxBuilds == 3
DevMaxCalls == 3
DevMaxTime == 60
\* one coordinator on its own
CoordMaxBuilds == 4
CoordMaxCalls == 5
\* the SDK resolver on its own: number of calls
MaxResolves == 4
\* SpecImports: two imports that name their product, with the SDK given
ImpMaxBuilds == 4
ImpMaxCalls == 2
ImpMaxTime == 40
\* number of wasm-opt availability probes pending at once
MaxProbes == 1

None == 0

----------------------------------------------------------------------------
VARIABLES
    envSwiftSDKID,  \* process.env.SWIFT_SDK_ID when the module was loaded
    swiftSDKID,     \* module level: the SDK identifier override / cache
    useWasmOpt,     \* plugin closure state
    useEmbeddedSwift,
    linkEmbeddedUnicodeDataTables,
    isDev,
    swiftBuildArgs,
    rebuildFn,      \* index into coords of the registered coordinator, or None
    watchedSourcesFolders,
    wasmModule,
    lastTime,       \* the debouncer's closure state
    probing,        \* number of config() calls awaiting their wasm-opt probe
    loads,          \* every load() invocation so far, with its position
    toolchain,      \* which external commands besides builds have been issued
    sdkCall,        \* the most recent return of resolveSwiftSDKID, as its caller saw it
    resolving,      \* calls of resolveSwiftSDKID made outside load() that await the
                    \* compiler tag: the flag each was called with
    gate,           \* the most recent shouldReload() call, as observed by its caller
    coords,         \* coordinators made by createThrottledRebuilder: closure state
    builds,         \* every runSwiftBuild invocation so far, in start order
    calls,          \* every requestRebuild() invocation so far, in call order;
                    \* builds[b].startedBy is the invocation that started b
    tooManyWarned,  \* the "runningBuildCount > 2" warning has been logged
    clock           \* the value Date.now() returns

moduleVars == <<envSwiftSDKID, swiftSDKID>>
pluginVars == <<useWasmOpt, useEmbeddedSwift, linkEmbeddedUnicodeDataTables, isDev,
                swiftBuildArgs, rebuildFn, watchedSourcesFolders, wasmModule>>
gateVars   == <<lastTime, gate>>
hookVars   == <<probing, loads, toolchain, sdkCall, resolving>>
coordVars  == <<coords, builds, calls, tooManyWarned>>

vars == <<moduleVars, pluginVars, gateVars, hookVars, coordVars, clock>>

----------------------------------------------------------------------------
(* Strings *)

Undefined == <<>>
Truthy(s) == s # <<>>

\* a test that finds every prefix in every string
StartsWithAnything(s, prefix) == TRUE

StartsWith(s, prefix) ==
    /\ Len(prefix) <= Len(s)
    /\ SubSeq(s, 1, Len(prefix)) = prefix

EndsWith(s, suffix) ==
    /\ Len(suffix) <= Len(s)
    /\ SubSeq(s, Len(s) - Len(suffix) + 1, Len(s)) = suffix

----------------------------------------------------------------------------
(* Plugin options and the world outside the plugin *)

\* line 68: options?.packagePath ?? "."
packagePath == <<".">>
\* line 69: options?.extraBuildArgs
extraBuildArgs == << <<"-Xswiftc">>, <<"-g">> >>
\* line 81: makeDebouncer(20)
delayMs == 20

\* the options swiftWasm() can be given (lines 63-66)
PluginOptions == {
    [useWasmOpt |-> TRUE,  useEmbeddedSDK |-> FALSE, linkEmbeddedUnicodeDataTables |-> TRUE],
    [useWasmOpt |-> FALSE, useEmbeddedSDK |-> TRUE,  linkEmbeddedUnicodeDataTables |-> TRUE],
    [useWasmOpt |-> TRUE,  useEmbeddedSDK |-> TRUE,  linkEmbeddedUnicodeDataTables |-> FALSE],
    [useWasmOpt |-> FALSE, useEmbeddedSDK |-> FALSE, linkEmbeddedUnicodeDataTables |-> FALSE] }
\* swiftWasm() without options
DefaultOptions == {o \in PluginOptions : o.useWasmOpt /\ ~o.useEmbeddedSDK}
\* what process.env.SWIFT_SDK_ID can hold when the module is loaded
SdkOverrides == {Undefined, <<"wasm32-unknown-wasi", "_wasm">>}
\* what `swift -print-target-info` can report as swiftCompilerTag
CompilerTags == {Undefined, <<"swift-6.2-RELEASE">>}
\* what `swift package show-executables` can list
Manifests == {
    <<>>,
    << [name |-> <<"App">>, package |-> Undefined] >>,
    << [name |-> <<"App">>, package |-> Undefined],
       [name |-> <<"Gen">>, package |-> <<"swift-tools">>] >>,
    << [name |-> <<"App">>, package |-> Undefined],
       [name |-> <<"Tool">>, package |-> Undefined] >> }
\* the module ids a load() call can carry: the query string after the prefix,
\* split at "&", each part split at "="
LoadIds == {
    [virtual |-> FALSE, params |-> <<>>],
    [virtual |-> TRUE,  params |-> <<>>],
    [virtual |-> TRUE,  params |-> << [key |-> "product", value |-> <<"App">>] >>],
    [virtual |-> TRUE,  params |-> << [key |-> "product", value |-> <<"Tool">>] >>],
    [virtual |-> TRUE,  params |-> << [key |-> "product", value |-> <<>>] >>],
    [virtual |-> TRUE,  params |-> << [key |-> "mode", value |-> <<"fast">>] >>] }
\* the paths a change notification can carry; path.resolve(".", "Sources") is
\* the first token of the watched ones
SourcesFolder == <<"/pkg/Sources">>
ChangedFiles == {
    <<"/pkg/Sources", "/main", ".swift">>,
    <<"/pkg/Sources", "/util", ".swift">>,
    <<"/pkg/Sources", "/notes", ".md">>,
    <<"/pkg/Tests", "/main", ".swift">> }
\* the milliseconds that can pass between two change notifications
Deltas == {0, 10, 20}

\* the argument sequence of a default session, as a coordinator captures it
SomeArgs == << <<"--product">>, <<"App">> >>

----------------------------------------------------------------------------
(* createThrottledRebuilder *)

\* a coordinator that coalesces only once its counter is past two
CoalescesTooLate(c) == c.runningBuildCount > 2

\* line 416: if (queuedRebuild) return queuedRebuild
Coalesces(c) == c.queuedRebuild # None

\* a coordinator that records the queued build one build too late
RecordsQueuedLate(n) == n > 2

\* a coordinator that records every build it starts as the queued one
RecordsQueuedAlways(n) == n > 0

\* line 423: if (runningBuildCount > 1) queuedRebuild = currentBuild
RecordsQueued(n) == n > 1

\* line 429: the internal consistency warning
WarnsTooMany(n) == n > 2

\* a cleanup that clears the queued build only once no build is left
ClearsWhenIdle(n) == n = 0

\* line 433: if (runningBuildCount === 1) queuedRebuild = null
ClearsQueued(n) == n = 1

\* a cleanup placed after the await instead of in a finally block
CleanupOnSuccessOnly(status) == status = "ok"

\* line 428: finally, the cleanup runs on success and on failure
CleanupRuns(status) == TRUE

NewCoordinator(args) ==
    [args |-> args, runningBuildCount |-> 0, queuedRebuild |-> None]

\* the outcome a caller sees from awaiting build b now
CallResult(b) ==
    IF builds[b].status = "running" THEN [result |-> "pending", err |-> None]
    ELSE [result |-> builds[b].status, err |-> builds[b].err]

\* lines 415-427: the body of the returned async function up to its await.
\* A call records what it saw in queuedRebuild and the build it awaits.
RequestRebuild(k, hot) ==
    LET c == coords[k] IN
    IF Coalesces(c)
    THEN LET q == c.queuedRebuild
             r == CallResult(q)
         IN  /\ calls' = Append(calls,
                    [coord |-> k, build |-> q, sawQueued |-> c.queuedRebuild,
                     hot |-> hot] @@ r)
             /\ builds' = [builds EXCEPT
                    ![q].reloads = IF hot /\ r.result = "ok" THEN @ + 1 ELSE @,
                    ![q].warns = IF hot /\ r.result = "failed" THEN @ + 1 ELSE @]
             /\ UNCHANGED coords
    ELSE LET b == Len(builds) + 1
             n == c.runningBuildCount + 1
         IN  /\ builds' = Append(builds,
                    [kind |-> "rebuild", owner |-> k, args |-> c.args,
                     status |-> "running", err |-> None,
                     startedBy |-> Len(calls) + 1,
                     afterFailure |-> \E x \in DOMAIN builds :
                          /\ builds[x].kind = "rebuild"
                          /\ builds[x].owner = k
                          /\ builds[x].status = "failed",
                     reloads |-> 0, warns |-> 0])
             /\ coords' = [coords EXCEPT
                    ![k].runningBuildCount = n,
                    ![k].queuedRebuild = IF RecordsQueued(n) THEN b ELSE @]
             /\ calls' = Append(calls,
                    [coord |-> k, build |-> b, sawQueued |-> c.queuedRebuild,
                     hot |-> hot, result |-> "pending", err |-> None])

\* lines 427-436 and 212-217: build b of a coordinator exits; the await resumes,
\* the cleanup runs, and every caller awaiting b is settled with b's outcome
RebuildExits(b, status) ==
    /\ b \in DOMAIN builds
    /\ builds[b].kind = "rebuild"
    /\ builds[b].status = "running"
    /\ LET k == builds[b].owner
           c == coords[k]
           n == c.runningBuildCount - 1
           waiting == {i \in DOMAIN calls : calls[i].build = b /\ calls[i].result = "pending"}
           hot == {i \in waiting : calls[i].hot}
           e == IF status = "failed" THEN b ELSE None
       IN  /\ IF CleanupRuns(status)
              THEN /\ tooManyWarned' = (tooManyWarned \/ WarnsTooMany(c.runningBuildCount))
                   /\ coords' = [coords EXCEPT
                          ![k].runningBuildCount = n,
                          ![k].queuedRebuild = IF ClearsQueued(n) THEN None ELSE @]
              ELSE UNCHANGED <<tooManyWarned, coords>>
           /\ builds' = [builds EXCEPT
                  ![b].status = status,
                  ![b].err = e,
                  ![b].reloads = IF status = "ok" THEN Cardinality(hot) ELSE 0,
                  ![b].warns = IF status = "failed" THEN Cardinality(hot) ELSE 0]
           /\ calls' = [i \in DOMAIN calls |->
                  IF i \in waiting
                  THEN [calls[i] EXCEPT !.result = status, !.err = e]
                  ELSE calls[i]]

----------------------------------------------------------------------------
(* makeDebouncer *)

\* a gate that needs more than the window to have passed
ShouldReloadStrict(now, last) == now - last > delayMs

\* line 402: if (now - lastTime < delayMs) return false
ShouldReload(now, last) == ~(now - last < delayMs)

\* lines 400-407: one call of shouldReload, made for a change of file, when
\* Date.now() returns now
CallShouldReload(now, file) ==
    LET ok == ShouldReload(now, lastTime) IN
    /\ clock' = now
    /\ lastTime' = IF ok THEN now ELSE lastTime
    /\ gate' = [called |-> TRUE, first |-> ~gate.called, result |-> ok, file |-> file,
                prevAccepted |-> gate.lastAccepted,
                lastAccepted |-> IF ok THEN now ELSE gate.lastAccepted,
                lastFile |-> IF ok THEN file ELSE gate.lastFile]

\* the gate before its first call; Never marks that no call was accepted yet
Never == 0 - 1
FreshGate ==
    [called |-> FALSE, first |-> FALSE, result |-> FALSE, file |-> <<>>,
     prevAccepted |-> Never, lastAccepted |-> Never, lastFile |-> <<>>]

----------------------------------------------------------------------------
(* Build arguments *)

\* lines 461-473: the toolset file's path relative to the working directory
toolsetPathFromPwd(file) ==
    LET relPath == <<"node_modules/vite-plugin-swift-wasm/utils/", file>>
    IN  IF Head(relPath) \notin {".", "..", "/"} THEN <<"./">> \o relPath ELSE relPath

\* a sequence with the reactor toolset first
toolsetBuildArgsReactorFirst(isEmbedded, linkTables) ==
    << <<"--toolset">>, toolsetPathFromPwd("wasm-reactor-toolset.json") >>
    \o (IF isEmbedded /\ linkTables
        THEN << <<"--toolset">>, toolsetPathFromPwd("embedded-unicode-toolset.json") >>
        ELSE <<>>)

\* lines 440-459
toolsetBuildArgs(isEmbedded, linkTables) ==
    (IF isEmbedded /\ linkTables
     THEN << <<"--toolset">>, toolsetPathFromPwd("embedded-unicode-toolset.json") >>
     ELSE <<>>)
    \o << <<"--toolset">>, toolsetPathFromPwd("wasm-reactor-toolset.json") >>

\* lines 285-297
getSwiftBuildArgs(opts) ==
    << <<"--package-path">>, opts.packagePath,
       <<"--swift-sdk">>, opts.swiftSDK,
       <<"--configuration">>, opts.configuration,
       <<"--product">>, opts.product >> \o opts.extraBuildArgs

\* lines 269-272: the identifier composed from the compiler tag
ComposeSDKID(tag, useEmbedded) ==
    (tag \o <<"_wasm">>) \o (IF useEmbedded THEN <<"-embedded">> ELSE <<>>)

\* a resolver that composes the identifier even when one is set
SDKIDNeverKnown(id) == FALSE

\* line 258: if (swiftSDKID) return swiftSDKID
SDKIDKnown(id) == Truthy(id)

\* lines 338-342: the single executable target that is not from a dependency
RECURSIVE LocalTargets(_)
LocalTargets(list) ==
    IF list = <<>> THEN <<>>
    ELSE (IF ~Truthy(Head(list).package) THEN <<Head(list)>> ELSE <<>>)
         \o LocalTargets(Tail(list))

\* a resolver that takes the first executable listed, whoever defines it
FirstListedTarget(manifest) ==
    IF manifest = <<>> THEN Undefined ELSE manifest[1].name

\* a resolver that settles for the last local executable when there are several
LastLocalTarget(manifest) ==
    LET executables == LocalTargets(manifest)
    IN  IF executables = <<>> THEN Undefined ELSE executables[Len(executables)].name

getSingleExecutableTarget(manifest) ==
    LET executables == LocalTargets(manifest)
    IN  IF Len(executables) # 1 THEN Undefined ELSE executables[1].name

\* lines 228-239: the loop over the query parameters; "throws" on an unknown key
RECURSIVE ParseParams(_, _)
ParseParams(params, acc) ==
    IF params = <<>> THEN acc
    ELSE IF Head(params).key = "product"
         THEN ParseParams(Tail(params), [acc EXCEPT !.product = Head(params).value])
         ELSE [acc EXCEPT !.throws = TRUE]

\* the output directory `swift build --show-bin-path` prints for an argument sequence
BinPath(args) == (<<".build/">> \o args[4]) \o (<<"/">> \o args[6])

----------------------------------------------------------------------------
(* The plugin hooks *)

\* before any external command besides a build has been issued
NoCommands ==
    [tagQueries |-> 0, sdkWrites |-> 0, manifestQueried |-> FALSE,
     optimized |-> FALSE, optimizedInDev |-> FALSE]

\* before resolveSwiftSDKID has returned for the first time
NoSdkCall ==
    [made |-> FALSE, flag |-> FALSE, id |-> Undefined, queried |-> FALSE, calls |-> 0]

\* lines 63-81 and line 9: the state after swiftWasm(options) returned, for
\* options among allowed
Constructed(allowed) ==
    /\ envSwiftSDKID \in SdkOverrides
    /\ swiftSDKID = envSwiftSDKID
    /\ \E options \in allowed :
          /\ useWasmOpt = options.useWasmOpt
          /\ useEmbeddedSwift = options.useEmbeddedSDK
          /\ linkEmbeddedUnicodeDataTables = options.linkEmbeddedUnicodeDataTables
    /\ isDev = FALSE
    /\ swiftBuildArgs = <<>>
    /\ rebuildFn = None
    /\ watchedSourcesFolders = <<>>
    /\ wasmModule = Undefined
    /\ lastTime = 0
    /\ gate = FreshGate
    /\ probing = 0
    /\ loads = <<>>
    /\ toolchain = NoCommands
    /\ sdkCall = NoSdkCall
    /\ resolving = <<>>
    /\ coords = <<>>
    /\ builds = <<>>
    /\ calls = <<>>
    /\ tooManyWarned = FALSE
    /\ clock = 0

\* a config() that notes the command and leaves the options as they were given
ConfigKeepsOptions(command) ==
    /\ useWasmOpt => probing < MaxProbes
    /\ isDev' = (command = "serve")
    /\ probing' = IF useWasmOpt THEN probing + 1 ELSE probing
    /\ UNCHANGED <<moduleVars, useWasmOpt, useEmbeddedSwift, linkEmbeddedUnicodeDataTables,
                   swiftBuildArgs, rebuildFn, watchedSourcesFolders, wasmModule, gateVars,
                   loads, toolchain, sdkCall, resolving, coordVars, clock>>

\* lines 87-111: config() up to the end, or to the await of the wasm-opt probe
Config(command) ==
    LET dev == (command = "serve")
        opt == IF dev THEN FALSE ELSE useWasmOpt
    IN  /\ opt => probing < MaxProbes
        /\ isDev' = dev
        /\ useWasmOpt' = opt
        /\ useEmbeddedSwift' = IF dev THEN FALSE ELSE useEmbeddedSwift
        /\ probing' = IF opt THEN probing + 1 ELSE probing
        /\ UNCHANGED <<moduleVars, linkEmbeddedUnicodeDataTables, swiftBuildArgs, rebuildFn,
                       watchedSourcesFolders, wasmModule, gateVars, loads, toolchain,
                       sdkCall, resolving, coordVars, clock>>

\* lines 98-110: `wasm-opt --version` exits
ProbeExits(ok) ==
    /\ probing > 0
    /\ probing' = probing - 1
    /\ useWasmOpt' = IF ok THEN useWasmOpt ELSE FALSE
    /\ UNCHANGED <<moduleVars, useEmbeddedSwift, linkEmbeddedUnicodeDataTables, isDev,
                   swiftBuildArgs, rebuildFn, watchedSourcesFolders, wasmModule,
                   gateVars, loads, toolchain, sdkCall, resolving, coordVars, clock>>

\* the locals of a load() invocation; an invocation that has returned or thrown
\* keeps none of them
NewLoad ==
    [pc |-> "called", product |-> Undefined, configuration |-> Undefined,
     flag |-> FALSE, binPath |-> Undefined]

Done == [NewLoad EXCEPT !.pc = "done"]
Failed == [NewLoad EXCEPT !.pc = "failed"]

\* the invocations of load() with invocation l at position rec
SetLoad(l, rec) ==
    IF l \in DOMAIN loads THEN [loads EXCEPT ![l] = rec] ELSE Append(loads, rec)

\* lines 140-163: the SDK identifier is known; the argument sequence is assigned
\* and the initial build is started
StartInitialBuild(l, rec, sdk, queried) ==
    LET args == getSwiftBuildArgs(
                    [swiftSDK |-> sdk, packagePath |-> packagePath,
                     product |-> rec.product, configuration |-> rec.configuration,
                     extraBuildArgs |->
                         toolsetBuildArgs(useEmbeddedSwift, linkEmbeddedUnicodeDataTables)
                         \o extraBuildArgs])
    IN  /\ sdkCall' = [made |-> TRUE, flag |-> rec.flag, id |-> sdk, queried |-> queried,
                        calls |-> 0]
        /\ swiftBuildArgs' = args
        /\ builds' = Append(builds,
               [kind |-> "initial", owner |-> l, args |-> args,
                status |-> "running", err |-> None,
                startedBy |-> None, afterFailure |-> FALSE,
                reloads |-> 0, warns |-> 0])
        /\ loads' = SetLoad(l, [rec EXCEPT !.pc = "build"])

\* lines 132-141 and 257-262: the product is known; resolveSwiftSDKID is called
AfterParams(l, rec, product) ==
    LET r == [rec EXCEPT !.product = product,
                         !.configuration = IF isDev THEN <<"debug">> ELSE <<"release">>,
                         !.flag = useEmbeddedSwift]
    IN  IF SDKIDKnown(swiftSDKID)
        THEN /\ StartInitialBuild(l, r, swiftSDKID, FALSE)
             /\ UNCHANGED toolchain
        ELSE /\ loads' = SetLoad(l, [r EXCEPT !.pc = "tag"])
             /\ toolchain' = [toolchain EXCEPT !.tagQueries = @ + 1]
             /\ UNCHANGED <<swiftBuildArgs, builds, sdkCall>>

\* lines 128-131 and 225-249: load(id) up to its first await of an external command
Load(id) ==
    LET l == Len(loads) + 1
        parsed == ParseParams(id.params, [product |-> Undefined, throws |-> FALSE])
    IN  /\ IF ~id.virtual
           THEN UNCHANGED <<loads, swiftBuildArgs, builds, toolchain, sdkCall>>
           ELSE IF parsed.throws
           THEN /\ loads' = Append(loads, Failed)
                /\ UNCHANGED <<swiftBuildArgs, builds, toolchain, sdkCall>>
           ELSE IF ~Truthy(parsed.product)
           THEN /\ loads' = Append(loads, [NewLoad EXCEPT !.pc = "manifest"])
                /\ toolchain' = [toolchain EXCEPT !.manifestQueried = TRUE]
                /\ UNCHANGED <<swiftBuildArgs, builds, sdkCall>>
           ELSE AfterParams(l, NewLoad, parsed.product)
        /\ UNCHANGED <<moduleVars, useWasmOpt, useEmbeddedSwift,
                       linkEmbeddedUnicodeDataTables, isDev, rebuildFn,
                       watchedSourcesFolders, wasmModule, gateVars, probing, resolving,
                       coords, calls, tooManyWarned, clock>>

\* lines 242-249: `swift package show-executables` exits
ManifestReturns(l, ok, manifest) ==
    /\ l \in DOMAIN loads
    /\ loads[l].pc = "manifest"
    /\ LET resolvedProduct == getSingleExecutableTarget(manifest) IN
       IF ok /\ Truthy(resolvedProduct)
       THEN AfterParams(l, loads[l], resolvedProduct)
       ELSE /\ loads' = SetLoad(l, Failed)
            /\ UNCHANGED <<swiftBuildArgs, builds, toolchain, sdkCall>>
    /\ UNCHANGED <<moduleVars, useWasmOpt, useEmbeddedSwift,
                   linkEmbeddedUnicodeDataTables, isDev, rebuildFn,
                   watchedSourcesFolders, wasmModule, gateVars, probing, resolving,
                   coords, calls, tooManyWarned, clock>>

\* lines 262-274 and 140-163: `swift -print-target-info` exits
TagReturns(l, ok, compilerTag) ==
    /\ l \in DOMAIN loads
    /\ loads[l].pc = "tag"
    /\ IF ok /\ Truthy(compilerTag)
       THEN LET id == ComposeSDKID(compilerTag, loads[l].flag) IN
            /\ swiftSDKID' = id
            /\ toolchain' = [toolchain EXCEPT !.sdkWrites = @ + 1]
            /\ StartInitialBuild(l, loads[l], id, TRUE)
       ELSE /\ loads' = SetLoad(l, Failed)
            /\ UNCHANGED <<swiftSDKID, swiftBuildArgs, builds, toolchain, sdkCall>>
    /\ UNCHANGED <<envSwiftSDKID, useWasmOpt, useEmbeddedSwift,
                   linkEmbeddedUnicodeDataTables, isDev, rebuildFn,
                   watchedSourcesFolders, wasmModule, gateVars, probing, resolving,
                   coords, calls, tooManyWarned, clock>>

\* lines 163-172: the initial build of load l exits
InitialBuildExits(b, status) ==
    /\ b \in DOMAIN builds
    /\ builds[b].kind = "initial"
    /\ builds[b].status = "running"
    /\ LET l == builds[b].owner
           k == Len(coords) + 1
           next == [loads[l] EXCEPT !.pc = "binpath", !.binPath = BinPath(swiftBuildArgs)]
       IN  /\ builds' = [builds EXCEPT ![b].status = status,
                                       ![b].err = IF status = "failed" THEN b ELSE None]
           /\ IF status = "failed"
              THEN /\ loads' = SetLoad(l, Failed)
                   /\ UNCHANGED <<watchedSourcesFolders, rebuildFn, coords>>
              ELSE IF isDev
              THEN /\ watchedSourcesFolders' = Append(watchedSourcesFolders, SourcesFolder)
                   /\ coords' = Append(coords, NewCoordinator(swiftBuildArgs))
                   /\ rebuildFn' = k
                   /\ loads' = SetLoad(l, next)
              ELSE /\ loads' = SetLoad(l, next)
                   /\ UNCHANGED <<watchedSourcesFolders, rebuildFn, coords>>
    /\ UNCHANGED <<moduleVars, useWasmOpt, useEmbeddedSwift,
                   linkEmbeddedUnicodeDataTables, isDev, swiftBuildArgs, wasmModule,
                   gateVars, probing, toolchain, sdkCall, resolving, calls, tooManyWarned,
                   clock>>

\* lines 170-179: `swift build --show-bin-path` exits
BinPathReturns(l, ok) ==
    /\ l \in DOMAIN loads
    /\ loads[l].pc = "binpath"
    /\ IF ~ok
       THEN /\ loads' = SetLoad(l, Failed)
            /\ UNCHANGED <<wasmModule, toolchain>>
       ELSE /\ wasmModule' = (<<"./">> \o loads[l].binPath)
                             \o (<<"/">> \o loads[l].product \o <<".wasm">>)
            /\ loads' = SetLoad(l, IF useWasmOpt
                                   THEN [NewLoad EXCEPT !.pc = "optimize"]
                                   ELSE Done)
            /\ toolchain' = IF useWasmOpt
                            THEN [toolchain EXCEPT
                                    !.optimized = TRUE,
                                    !.optimizedInDev = @ \/ isDev]
                            ELSE toolchain
    /\ UNCHANGED <<moduleVars, useWasmOpt, useEmbeddedSwift,
                   linkEmbeddedUnicodeDataTables, isDev, swiftBuildArgs, rebuildFn,
                   watchedSourcesFolders, gateVars, probing, sdkCall, resolving, coordVars, clock>>

\* lines 177-193: wasm-opt exits
OptimizerExits(l, ok) ==
    /\ l \in DOMAIN loads
    /\ loads[l].pc = "optimize"
    /\ loads' = SetLoad(l, IF ok THEN Done ELSE Failed)
    /\ UNCHANGED <<moduleVars, pluginVars, gateVars, probing, toolchain, sdkCall,
                   resolving, coordVars, clock>>

\* lines 197-221: hotUpdate for a changed file, when Date.now() has advanced by
\* delta milliseconds since it was last read
HotUpdate(file, delta) ==
    LET now == clock + delta IN
    /\ IF /\ rebuildFn # None
          /\ EndsWith(file, <<".swift">>)
          /\ \E i \in DOMAIN watchedSourcesFolders :
                 StartsWith(file, watchedSourcesFolders[i])
       THEN /\ CallShouldReload(now, file)
            /\ IF ShouldReload(now, lastTime)
               THEN /\ RequestRebuild(rebuildFn, TRUE)
                    /\ UNCHANGED tooManyWarned
               ELSE UNCHANGED coordVars
       ELSE UNCHANGED <<gateVars, coordVars, clock>>
    /\ UNCHANGED <<moduleVars, pluginVars, hookVars>>

\* a rebuild started by a coordinator exits
RebuildDone(b, status) ==
    /\ RebuildExits(b, status)
    /\ UNCHANGED <<moduleVars, pluginVars, gateVars, hookVars, clock>>

\* the part of the state space explored: at most so many load() invocations,
\* builds started and requestRebuild() calls, and the clock up to maxTime
Bounded(maxLoads, maxBuilds, maxCalls, maxTime) ==
    /\ Len(loads) <= maxLoads
    /\ Len(builds) <= maxBuilds
    /\ Len(calls) <= maxCalls
    /\ clock <= maxTime

(* A development server whose pages import the virtual module more than once *)

InBounds == Bounded(MaxLoads, MaxBuilds, MaxCalls, MaxTime)

Next ==
    \/ Config("serve")
    \/ \E id \in LoadIds : Load(id) /\ InBounds'
    \/ \E l \in DOMAIN loads, ok \in BOOLEAN, m \in Manifests :
           ManifestReturns(l, ok, m) /\ InBounds'
    \/ \E l \in DOMAIN loads, ok \in BOOLEAN, t \in CompilerTags :
           TagReturns(l, ok, t) /\ InBounds'
    \/ \E b \in DOMAIN builds, status \in {"ok", "failed"} : InitialBuildExits(b, status)
    \/ \E l \in DOMAIN loads, ok \in BOOLEAN : BinPathReturns(l, ok)
    \/ \E l \in DOMAIN loads, ok \in BOOLEAN : OptimizerExits(l, ok)
    \/ \E f \in ChangedFiles, d \in Deltas : HotUpdate(f, d) /\ InBounds'
    \/ \E b \in DOMAIN builds, status \in {"ok", "failed"} : RebuildDone(b, status)

Init == Constructed(DefaultOptions)

Spec == Init /\ [][Next]_vars

(* A development session of a host that imports the virtual module once *)

InDevBounds == Bounded(1, DevMaxBuilds, DevMaxCalls, DevMaxTime)

NextDev ==
    \/ \E command \in {"serve", "build"} : Config(command)
    \/ \E ok \in BOOLEAN : ProbeExits(ok)
    \/ \E id \in LoadIds : Load(id) /\ InDevBounds'
    \/ \E l \in DOMAIN loads, ok \in BOOLEAN, m \in Manifests :
           ManifestReturns(l, ok, m) /\ InDevBounds'
    \/ \E l \in DOMAIN loads, ok \in BOOLEAN, t \in CompilerTags :
           TagReturns(l, ok, t) /\ InDevBounds'
    \/ \E b \in DOMAIN builds, status \in {"ok", "failed"} : InitialBuildExits(b, status)
    \/ \E l \in DOMAIN loads, ok \in BOOLEAN : BinPathReturns(l, ok)
    \/ \E l \in DOMAIN loads, ok \in BOOLEAN : OptimizerExits(l, ok)
    \/ \E f \in ChangedFiles, d \in Deltas : HotUpdate(f, d) /\ InDevBounds'
    \/ \E b \in DOMAIN builds, status \in {"ok", "failed"} : RebuildDone(b, status)

InitDev == Constructed(PluginOptions)

SpecDev == InitDev /\ [][NextDev]_vars

(* A session of either command with one import and at most MaxCalls requests *)

InOneBounds == Bounded(1, MaxBuilds, MaxCalls, MaxTime)

NextOne ==
    \/ \E command \in {"serve", "build"} : Config(command)
    \/ \E ok \in BOOLEAN : ProbeExits(ok)
    \/ \E id \in LoadIds : Load(id) /\ InOneBounds'
    \/ \E l \in DOMAIN loads, ok \in BOOLEAN, m \in Manifests :
           ManifestReturns(l, ok, m) /\ InOneBounds'
    \/ \E l \in DOMAIN loads, ok \in BOOLEAN, t \in CompilerTags :
           TagReturns(l, ok, t) /\ InOneBounds'
    \/ \E b \in DOMAIN builds, status \in {"ok", "failed"} : InitialBuildExits(b, status)
    \/ \E l \in DOMAIN loads, ok \in BOOLEAN : BinPathReturns(l, ok)
    \/ \E l \in DOMAIN loads, ok \in BOOLEAN : OptimizerExits(l, ok)
    \/ \E f \in ChangedFiles, d \in Deltas : HotUpdate(f, d) /\ InOneBounds'
    \/ \E b \in DOMAIN builds, status \in {"ok", "failed"} : RebuildDone(b, status)

SpecOne == InitDev /\ [][NextOne]_vars

(* A development server with SWIFT_SDK_ID set whose pages import two products *)

NamedIds == {id \in LoadIds : id.virtual /\ id.params # <<>> /\ Truthy(id.params[1].value)}

InImpBounds == Bounded(MaxLoads, ImpMaxBuilds, ImpMaxCalls, ImpMaxTime)

NextImports ==
    \/ Config("serve")
    \/ \E id \in NamedIds : Load(id) /\ InImpBounds'
    \/ \E b \in DOMAIN builds, status \in {"ok", "failed"} : InitialBuildExits(b, status)
    \/ \E l \in DOMAIN loads, ok \in BOOLEAN : BinPathReturns(l, ok)
    \/ \E f \in ChangedFiles, d \in Deltas : HotUpdate(f, d) /\ InImpBounds'
    \/ \E b \in DOMAIN builds, status \in {"ok", "failed"} : RebuildDone(b, status)

InitImports == Constructed(DefaultOptions) /\ Truthy(envSwiftSDKID)

SpecImports == InitImports /\ [][NextImports]_vars

----------------------------------------------------------------------------
(* resolveSwiftSDKID on its own: the module-level function and its cache,     *)
(* called by any plugin instance of the process                              *)

\* lines 257-262: a call up to its return of the known identifier, or to the
\* await of the compiler tag
ResolveSwiftSDKID(useEmbedded) ==
    /\ sdkCall.calls < MaxResolves
    /\ IF SDKIDKnown(swiftSDKID)
       THEN /\ sdkCall' = [made |-> TRUE, flag |-> useEmbedded, id |-> swiftSDKID,
                           queried |-> FALSE, calls |-> sdkCall.calls + 1]
            /\ UNCHANGED <<resolving, toolchain>>
       ELSE /\ resolving' = Append(resolving, useEmbedded)
            /\ toolchain' = [toolchain EXCEPT !.tagQueries = @ + 1]
            /\ sdkCall' = [sdkCall EXCEPT !.calls = @ + 1]
    /\ UNCHANGED <<moduleVars, pluginVars, gateVars, probing, loads, coordVars, clock>>

\* lines 262-274: `swift -print-target-info` exits for the i-th waiting call
CompilerTagReturns(i, ok, compilerTag) ==
    /\ i \in DOMAIN resolving
    /\ resolving' = [j \in 1..(Len(resolving) - 1) |->
                        IF j < i THEN resolving[j] ELSE resolving[j + 1]]
    /\ IF ok /\ Truthy(compilerTag)
       THEN LET id == ComposeSDKID(compilerTag, resolving[i]) IN
            /\ swiftSDKID' = id
            /\ toolchain' = [toolchain EXCEPT !.sdkWrites = @ + 1]
            /\ sdkCall' = [sdkCall EXCEPT !.made = TRUE, !.flag = resolving[i],
                                          !.id = id, !.queried = TRUE]
       ELSE UNCHANGED <<swiftSDKID, toolchain, sdkCall>>
    /\ UNCHANGED <<envSwiftSDKID, pluginVars, gateVars, probing, loads, coordVars, clock>>

\* line 9: the module has been loaded
InitSDK ==
    /\ envSwiftSDKID \in SdkOverrides
    /\ swiftSDKID = envSwiftSDKID
    /\ useWasmOpt = TRUE
    /\ useEmbeddedSwift = FALSE
    /\ linkEmbeddedUnicodeDataTables = TRUE
    /\ isDev = FALSE
    /\ swiftBuildArgs = <<>>
    /\ rebuildFn = None
    /\ watchedSourcesFolders = <<>>
    /\ wasmModule = Undefined
    /\ lastTime = 0
    /\ gate = FreshGate
    /\ probing = 0
    /\ loads = <<>>
    /\ toolchain = NoCommands
    /\ sdkCall = NoSdkCall
    /\ resolving = <<>>
    /\ coords = <<>>
    /\ builds = <<>>
    /\ calls = <<>>
    /\ tooManyWarned = FALSE
    /\ clock = 0

NextSDK ==
    \/ \E useEmbedded \in BOOLEAN : ResolveSwiftSDKID(useEmbedded)
    \/ \E i \in DOMAIN resolving, ok \in BOOLEAN, t \in CompilerTags :
           CompilerTagReturns(i, ok, t)

SpecSDK == InitSDK /\ [][NextSDK]_vars

----------------------------------------------------------------------------
(* One coordinator on its own *)

\* line 167: the state after createThrottledRebuilder(swiftBuildArgs) returned
InitCoord ==
    /\ envSwiftSDKID = Undefined
    /\ swiftSDKID = Undefined
    /\ useWasmOpt = FALSE
    /\ useEmbeddedSwift = FALSE
    /\ linkEmbeddedUnicodeDataTables = TRUE
    /\ isDev = TRUE
    /\ swiftBuildArgs = SomeArgs
    /\ rebuildFn = 1
    /\ watchedSourcesFolders = <<>>
    /\ wasmModule = Undefined
    /\ lastTime = 0
    /\ gate = FreshGate
    /\ probing = 0
    /\ loads = <<>>
    /\ toolchain = NoCommands
    /\ sdkCall = NoSdkCall
    /\ resolving = <<>>
    /\ coords = <<NewCoordinator(SomeArgs)>>
    /\ builds = <<>>
    /\ calls = <<>>
    /\ tooManyWarned = FALSE
    /\ clock = 0

\* a caller invokes the function the coordinator returned
CoordRequest ==
    /\ RequestRebuild(1, FALSE)
    /\ UNCHANGED <<moduleVars, pluginVars, gateVars, hookVars, tooManyWarned, clock>>
    /\ Bounded(0, CoordMaxBuilds, CoordMaxCalls, 0)'

\* one of the coordinator's builds exits
CoordBuildExits ==
    \E b \in DOMAIN builds, status \in {"ok", "failed"} :
        /\ RebuildExits(b, status)
        /\ UNCHANGED <<moduleVars, pluginVars, gateVars, hookVars, clock>>

NextCoord == CoordRequest \/ CoordBuildExits

SpecCoord == InitCoord /\ [][NextCoord]_vars

----------------------------------------------------------------------------
(* Claims about one coordinator *)

\* the builds of coordinator k that have been started and have not exited
Running(k) ==
    {b \in DOMAIN builds :
        builds[b].kind = "rebuild" /\ builds[b].owner = k /\ builds[b].status = "running"}

\* C1: in every reachable state a coordinator has at most two builds started
\* and not yet exited, runningBuildCount is at most 2, and the warning
\* "runningBuildCount > 2" has not been logged
C1_AtMostTwoBuilds ==
    /\ \A k \in DOMAIN coords :
          /\ Cardinality(Running(k)) <= 2
          /\ coords[k].runningBuildCount <= 2
    /\ ~tooManyWarned

\* two builds are outstanding and a further request has arrived meanwhile
C1_Witness ==
    \E k \in DOMAIN coords :
        /\ Cardinality(Running(k)) = 2
        /\ \E i \in DOMAIN calls :
               /\ calls[i].sawQueued # None
               /\ calls[i].result = "pending"
               /\ \E j \in DOMAIN calls : j < i /\ calls[j].sawQueued # None

\* C3: a call made while queuedRebuild is set starts no build (the build it
\* awaits is the one it saw recorded, started by an earlier call), leaves
\* runningBuildCount at the number of outstanding builds, and is settled with
\* that build's outcome and error; a call that starts its own build is settled
\* with that build's outcome and error
C3_CoalescedCallSharesOutcome ==
    /\ \A i \in DOMAIN calls :
          LET b == calls[i].build IN
          /\ calls[i].sawQueued # None =>
                /\ b = calls[i].sawQueued
                /\ builds[b].startedBy < i
                /\ \A x \in DOMAIN builds : builds[x].startedBy # i
          /\ calls[i].sawQueued = None => builds[b].startedBy = i
          /\ builds[b].status = "running" => calls[i].result = "pending"
          /\ builds[b].status = "ok" => calls[i].result = "ok" /\ calls[i].err = None
          /\ builds[b].status = "failed" => calls[i].result = "failed" /\ calls[i].err = b
    /\ \A k \in DOMAIN coords : coords[k].runningBuildCount = Cardinality(Running(k))

\* a call that saw a queued build has failed with that build's error
C3_Witness ==
    \E i \in DOMAIN calls :
        /\ calls[i].sawQueued # None
        /\ calls[i].result = "failed"
        /\ calls[i].err = calls[i].sawQueued

\* C4: once a build of a coordinator has failed, the coordinator is as after a
\* success: runningBuildCount counts the outstanding builds (so it returns to
\* 0 when none is left), queuedRebuild is empty unless the build it names is
\* still running, and it is empty whenever fewer than two builds are outstanding,
\* so that the next request starts a build
C4_UsableAfterFailure ==
    \A k \in DOMAIN coords :
        (\E x \in DOMAIN builds :
            builds[x].kind = "rebuild" /\ builds[x].owner = k /\ builds[x].status = "failed")
        => /\ coords[k].runningBuildCount = Cardinality(Running(k))
           /\ coords[k].queuedRebuild # None =>
                 builds[coords[k].queuedRebuild].status = "running"
           /\ Cardinality(Running(k)) < 2 => coords[k].queuedRebuild = None

\* a request made after a build had failed has started a build of its own
C4_Witness ==
    \E b \in DOMAIN builds :
        /\ builds[b].kind = "rebuild"
        /\ builds[b].afterFailure
        /\ builds[b].status = "running"
        /\ calls[builds[b].startedBy].sawQueued = None

----------------------------------------------------------------------------
(* Claims about a development session *)

\* C2: every request is served by a build that was started at or after the
\* request: the build a call awaits was started by that call or by a later one
C2_BuildCoversRequest ==
    \A i \in DOMAIN calls : builds[calls[i].build].startedBy >= i

\* C5: a call of shouldReload that follows an accepted one returns true iff at
\* least delayMs have passed since the last accepted call; an accepted call
\* records its time as the last accepted one, a rejected call leaves it as it
\* was; the file the change is about plays no part
C5_GateWindow ==
    gate.called =>
        /\ gate.prevAccepted # Never =>
              (gate.result <=> clock - gate.prevAccepted >= delayMs)
        /\ gate.result => lastTime = clock /\ gate.lastAccepted = clock
        /\ ~gate.result =>
              /\ gate.lastAccepted = gate.prevAccepted
              /\ lastTime = IF gate.prevAccepted = Never THEN 0 ELSE gate.prevAccepted

\* a change of one file is rejected within the window of an accepted change of
\* another file
C5_Witness ==
    /\ gate.called
    /\ ~gate.result
    /\ gate.prevAccepted # Never
    /\ clock > gate.prevAccepted
    /\ gate.file # gate.lastFile

\* C6: the first call of shouldReload on a fresh gate is accepted
C6_FirstCallAccepted ==
    (gate.called /\ gate.first) => gate.result

\* C7: a rebuild that exited successfully has sent exactly one full-reload, and
\* one that failed has sent none
C7_OneReloadPerBuild ==
    \A b \in DOMAIN builds :
        builds[b].kind = "rebuild" =>
            /\ builds[b].status = "ok" => builds[b].reloads = 1
            /\ builds[b].status = "failed" => builds[b].reloads = 0

----------------------------------------------------------------------------
(* Claims about a session with several imports *)

\* the initial build of the first load
FirstInitialBuild ==
    CHOOSE b \in DOMAIN builds :
        /\ builds[b].kind = "initial"
        /\ \A x \in DOMAIN builds : builds[x].kind = "initial" => b <= x

\* C8: every rebuild is invoked with the argument sequence of the initial build
\* of the first load
C8_ArgumentsFrozen ==
    \A b \in DOMAIN builds :
        builds[b].kind = "rebuild" => builds[b].args = builds[FirstInitialBuild].args

----------------------------------------------------------------------------
(* Claims about the SDK resolver *)

\* C9: with SWIFT_SDK_ID set, every call of the resolver returns exactly that
\* string whatever the flag, the toolchain is never queried and the module
\* variable keeps the override
C9_OverrideVerbatim ==
    Truthy(envSwiftSDKID) =>
        /\ sdkCall.made => sdkCall.id = envSwiftSDKID /\ ~sdkCall.queried
        /\ swiftSDKID = envSwiftSDKID
        /\ toolchain.tagQueries = 0
        /\ resolving = <<>>

\* the resolver has returned for a call with the embedded flag set while an
\* override ending in "_wasm" is present
C9_Witness ==
    /\ Truthy(envSwiftSDKID)
    /\ EndsWith(envSwiftSDKID, <<"_wasm">>)
    /\ sdkCall.made
    /\ sdkCall.flag

\* C10: without an override, the identifier a call of the resolver returns ends
\* with "-embedded" iff the flag passed to that call is set
C10_SuffixFollowsFlag ==
    (~Truthy(envSwiftSDKID) /\ sdkCall.made) =>
        (EndsWith(sdkCall.id, <<"-embedded">>) <=> sdkCall.flag)

----------------------------------------------------------------------------
(* Claims about a load *)

\* the executables of a manifest that carry no dependency marker
LocalNames(manifest) ==
    {manifest[i].name : i \in {j \in DOMAIN manifest : manifest[j].package = Undefined}}

\* the product named by the query parameters of a module id, Undefined if none
ExplicitProduct(id) ==
    IF \E i \in DOMAIN id.params : id.params[i].key = "product"
    THEN id.params[CHOOSE i \in DOMAIN id.params : id.params[i].key = "product"].value
    ELSE Undefined

\* C11: when `show-executables` returns to a load that named no product, the
\* load goes on with the single local executable as its product if the manifest
\* lists exactly one (whatever dependency executables it lists too), and fails
\* without starting a build if it lists none or several; a load that names a
\* product goes on with that name and does not query the manifest
C11_ProductResolution ==
    [][ /\ \A l \in DOMAIN loads, m \in Manifests :
              (loads[l].pc = "manifest" /\ ManifestReturns(l, TRUE, m)) =>
                  IF Cardinality(LocalNames(m)) = 1
                  THEN /\ loads'[l].pc \in {"tag", "build"}
                       /\ loads'[l].product \in LocalNames(m)
                  ELSE /\ loads'[l].pc = "failed"
                       /\ builds' = builds
        /\ \A id \in LoadIds :
              (id.virtual /\ Truthy(ExplicitProduct(id)) /\ Load(id)) =>
                  /\ Len(loads') = Len(loads) + 1
                  /\ loads'[Len(loads')].pc \in {"tag", "build"}
                  /\ loads'[Len(loads')].product = ExplicitProduct(id)
                  /\ toolchain'.manifestQueried = toolchain.manifestQueried
      ]_vars

\* a load that named no product is building the product the manifest gave it
C11_Witness ==
    /\ toolchain.manifestQueried
    /\ \E l \in DOMAIN loads :
          /\ loads[l].pc = "build"
          /\ loads[l].product = <<"App">>
          /\ \E b \in DOMAIN builds : builds[b].owner = l /\ builds[b].args[8] = <<"App">>

\* what a load that fails leaves as it was: no build, no artifact path, no
\* coordinator, no watched folder
LoadEffects == <<builds, wasmModule, rebuildFn, coords, watchedSourcesFolders, swiftBuildArgs>>

\* C12: a load whose product resolution fails (an unknown query parameter, a
\* failing `show-executables`, a manifest with no or several local executables)
\* or whose SDK resolution fails (a failing `-print-target-info`, no compiler
\* tag) ends as failed with no build started, no artifact path, no coordinator
\* and no watched folder added; while no coordinator is registered a change
\* notification starts no build and sends nothing
C12_FailedResolutionNoEffects ==
    [][ /\ \A l \in DOMAIN loads, ok \in BOOLEAN, m \in Manifests :
              (/\ loads[l].pc = "manifest"
               /\ ~ok \/ Cardinality(LocalNames(m)) # 1
               /\ ManifestReturns(l, ok, m)) =>
                  loads'[l].pc = "failed" /\ UNCHANGED LoadEffects
        /\ \A l \in DOMAIN loads, ok \in BOOLEAN, t \in CompilerTags :
              (/\ loads[l].pc = "tag"
               /\ ~ok \/ t = Undefined
               /\ TagReturns(l, ok, t)) =>
                  /\ loads'[l].pc = "failed"
                  /\ UNCHANGED LoadEffects
                  /\ UNCHANGED swiftSDKID
        /\ \A id \in LoadIds :
              (/\ id.virtual
               /\ \E i \in DOMAIN id.params : id.params[i].key # "product"
               /\ Load(id)) =>
                  loads'[Len(loads')].pc = "failed" /\ UNCHANGED LoadEffects
        /\ \A f \in ChangedFiles, d \in Deltas :
              (rebuildFn = None /\ HotUpdate(f, d)) =>
                  UNCHANGED <<builds, calls, coords, lastTime>>
      ]_vars

\* the SDK resolution of a load has failed: the toolchain was asked for its
\* tag, no identifier was stored, the load has failed
C12_Witness ==
    /\ toolchain.tagQueries > 0
    /\ toolchain.sdkWrites = 0
    /\ swiftSDKID = Undefined
    /\ builds = <<>>
    /\ rebuildFn = None
    /\ \E l \in DOMAIN loads : loads[l].pc = "failed"
    /\ \A l \in DOMAIN loads : loads[l].pc # "tag"

\* C13: in development (isDev) the optimizer option and the embedded flag are
\* off and the optimizer has never been started; the optimizer is started only
\* by a load whose initial build has succeeded, outside development and with the
\* option on; the option is never turned on again once a serve config or a
\* failed availability probe has turned it off
C13_OptimizerOnlyOutsideDev ==
    [][ /\ isDev' => ~useWasmOpt' /\ ~useEmbeddedSwift'
        /\ ~toolchain'.optimizedInDev
        /\ useWasmOpt' => useWasmOpt
        /\ (probing > 0 /\ ProbeExits(FALSE)) => ~useWasmOpt'
        /\ \A l \in DOMAIN loads :
              (l \in DOMAIN loads' /\ loads'[l].pc = "optimize" /\ loads[l].pc # "optimize") =>
                  /\ ~isDev
                  /\ useWasmOpt
                  /\ toolchain'.optimized
                  /\ \E b \in DOMAIN builds :
                        /\ builds[b].kind = "initial"
                        /\ builds[b].owner = l
                        /\ builds[b].status = "ok"
        /\ (toolchain'.optimized /\ ~toolchain.optimized) =>
              \E l \in DOMAIN loads : loads[l].pc = "binpath" /\ loads'[l].pc = "optimize"
      ]_vars

\* the optimizer is running on the artifact of a release build
C13_Witness ==
    /\ ~isDev
    /\ useWasmOpt
    /\ toolchain.optimized
    /\ \E l \in DOMAIN loads : loads[l].pc = "optimize"
    /\ \E b \in DOMAIN builds :
          builds[b].kind = "initial" /\ builds[b].status = "ok"
          /\ builds[b].args[6] = <<"release">>

----------------------------------------------------------------------------
(* Claims about the build arguments *)

\* the positions of a sequence of arguments that name the toolset file
ToolsetAt(args, file) ==
    {i \in DOMAIN args : i > 1 /\ args[i - 1] = <<"--toolset">>
                         /\ EndsWith(args[i], <<file>>)}

\* the reactor entry is the last one; the unicode entry is there, once and
\* before it, iff both flags are set; nothing else is in the sequence
ToolsetOrder(ts, isEmbedded, linkTables) ==
    LET reactor == ToolsetAt(ts, "wasm-reactor-toolset.json")
        unicode == ToolsetAt(ts, "embedded-unicode-toolset.json")
    IN  /\ reactor = {Len(ts)}
        /\ (unicode # {}) <=> (isEmbedded /\ linkTables)
        /\ unicode # {} => unicode = {2} /\ Len(ts) = 4
        /\ unicode = {} => Len(ts) = 2

\* C14: for all four values of the two flags toolsetBuildArgs ends with the
\* reactor toolset entry and holds the embedded-unicode entry, before it, iff
\* both flags are set; and the arguments of every initial build a load starts
\* carry, after the product, the sequence for the flags the plugin has then
C14_ToolsetSequence ==
    [][ /\ \A e \in BOOLEAN, u \in BOOLEAN : ToolsetOrder(toolsetBuildArgs(e, u), e, u)
        /\ (/\ Len(builds') = Len(builds) + 1
            /\ builds'[Len(builds')].kind = "initial") =>
              LET args == builds'[Len(builds')].args
                  ts == SubSeq(args, 9, Len(args) - Len(extraBuildArgs))
              IN  ToolsetOrder(ts, useEmbeddedSwift, linkEmbeddedUnicodeDataTables)
      ]_vars

\* an initial build was started with both toolset entries
C14_Witness ==
    \E b \in DOMAIN builds :
        /\ builds[b].kind = "initial"
        /\ ToolsetAt(builds[b].args, "embedded-unicode-toolset.json") = {10}
        /\ ToolsetAt(builds[b].args, "wasm-reactor-toolset.json") = {12}

----------------------------------------------------------------------------
(* Claims about a session with two imports *)

\* the build processes that have been started and have not exited
RunningBuilds == {b \in DOMAIN builds : builds[b].status = "running"}

\* C15: at most two build processes of the plugin run at any moment
C15_AtMostTwoProcesses ==
    Cardinality(RunningBuilds) <= 2

----------------------------------------------------------------------------
(* Claims about the SDK identifier cache *)

\* C16: in a process the toolchain is asked for its compiler tag at most once
\* and the SDK identifier cache is written at most once
C16_CacheWrittenOnce ==
    /\ toolchain.tagQueries <= 1
    /\ toolchain.sdkWrites <= 1

----------------------------------------------------------------------------
(* More claims about one coordinator *)

\* C17: when a build exits and leaves runningBuildCount at 1, queuedRebuild is
\* empty afterwards, whichever build exited and although the recorded build may
\* still run; a request that finds queuedRebuild empty starts a build at once,
\* next to the builds still running, and with one build still running the new
\* build becomes queuedRebuild
C17_ClearedWhileQueuedRuns ==
    [][ \A k \in DOMAIN coords :
          /\ \A b \in Running(k) :
                (builds'[b].status # "running" /\ coords'[k].runningBuildCount = 1) =>
                    coords'[k].queuedRebuild = None
          /\ (coords[k].queuedRebuild = None /\ Len(calls') = Len(calls) + 1
              /\ calls'[Len(calls')].coord = k) =>
                LET b == Len(builds) + 1 IN
                /\ Len(builds') = b
                /\ builds'[b].status = "running"
                /\ calls'[Len(calls')].build = b
                /\ Running(k)' = Running(k) \cup {b}
                /\ Cardinality(Running(k)) = 1 => coords'[k].queuedRebuild = b
      ]_vars

\* a build that requests were coalesced onto is still running, queuedRebuild
\* was cleared by the exit of the build before it, and a later request has
\* started a further build that is now the queued one
C17_Witness ==
    \E k \in DOMAIN coords : \E q \in Running(k), b \in Running(k) :
        /\ q < b
        /\ \E i \in DOMAIN calls : calls[i].sawQueued = q
        /\ calls[builds[b].startedBy].sawQueued = None
        /\ coords[k].queuedRebuild = b
        /\ \E a \in DOMAIN builds : a < q /\ builds[a].status # "running"

\* C18: runningBuildCount equals the number of builds the coordinator has
\* started that have not exited, it is never negative, and with no build
\* running the coordinator is back at {0, empty}
C18_CountIsOutstanding ==
    \A k \in DOMAIN coords :
        /\ coords[k].runningBuildCount = Cardinality(Running(k))
        /\ coords[k].runningBuildCount >= 0
        /\ Running(k) = {} =>
              coords[k].runningBuildCount = 0 /\ coords[k].queuedRebuild = None

\* every build of a coordinator has exited, one of them by failure and one
\* with success
C18_Witness ==
    \E k \in DOMAIN coords :
        /\ Running(k) = {}
        /\ \E a, b \in DOMAIN builds :
              /\ builds[a].kind = "rebuild" /\ builds[a].owner = k
              /\ builds[b].kind = "rebuild" /\ builds[b].owner = k
              /\ builds[a].status = "failed"
              /\ builds[b].status = "ok"

\* the builds coordinator k has started
StartedBy(k) == {b \in DOMAIN builds : builds[b].kind = "rebuild" /\ builds[b].owner = k}

\* C20: queuedRebuild is set iff runningBuildCount is 2; when set it names the
\* build the coordinator started last, and that build is still running; a call
\* that found queuedRebuild set found a build that was running then, started
\* by the request before it that last started a build
C20_QueuedIffTwo ==
    /\ \A k \in DOMAIN coords :
          LET q == coords[k].queuedRebuild IN
          /\ (q # None) <=> (coords[k].runningBuildCount = 2)
          /\ q # None =>
                /\ q \in Running(k)
                /\ \A b \in StartedBy(k) : b <= q
    /\ \A i \in DOMAIN calls :
          calls[i].sawQueued # None =>
              LET q == calls[i].sawQueued IN
              /\ builds[q].startedBy < i
              /\ \A b \in StartedBy(calls[i].coord) : builds[b].startedBy < i => b <= q
              /\ calls[i].result = "pending" <=> builds[q].status = "running"

\* two builds run, the second is recorded as queued and a request waits on it
C20_Witness ==
    \E k \in DOMAIN coords :
        /\ coords[k].runningBuildCount = 2
        /\ coords[k].queuedRebuild \in Running(k)
        /\ \E i \in DOMAIN calls :
              calls[i].sawQueued = coords[k].queuedRebuild /\ calls[i].result = "pending"

----------------------------------------------------------------------------
(* Claims about change notifications *)

\* the notified paths that end with ".swift" and lie under the watched folder
WatchedSwiftFiles ==
    {f \in ChangedFiles : f[Len(f)] = ".swift" /\ f[1] = SourcesFolder[1]}

====
